---------------------------- MODULE Spec2Model ----------------------------
(***************************************************************************)
(* A model of the homebridge-verano accessory plugin.                      *)
(*                                                                         *)
(* Spec models the TypeScript plugin of src/src/index.ts (the class that   *)
(* starts at line 221): the session (isAuthorized, sessionCookie), the     *)
(* cached thermostatState, the 2.5 s fetch cache (lastFetchTime) and every *)
(* host get/set handler as a task that runs from one suspension point      *)
(* (an axios request in flight) to the next. LegacySpec models the         *)
(* JavaScript plugin of src/src/index.js, CacheSpec the plugin of          *)
(* src/unnamed/part_001 with its cachedState and its five-second timer.    *)
(* ReadSpec, WriteSpec and ConfigSpec follow the TypeScript plugin one     *)
(* call at a time over wider ranges of device values, requested values     *)
(* and configurations.                                                     *)
(*                                                                         *)
(* Temperatures in degrees Celsius are fixed-point numbers with Scale      *)
(* units per degree (21.5 C is 2150); wire values are the integers the     *)
(* backend stores (21.5 C is 215).                                         *)
(***************************************************************************)
EXTENDS Integers, Sequences, FiniteSets, TLC

\* ------------------------------------------------------------------ bounds

\* Host handler invocations that can be in progress at the same time.
MaxTasks == 2

\* How many times the clock advances.
MaxTicks == 1

\* Milliseconds the clock advances per tick.
TickMs == 2500

\* Fixed-point units per degree Celsius: hundredths.
Scale == 10 * 10

\* ------------------------------------------------------- program constants

TEMPERATURE_DIVIDER == 10

TURN_ON_OFF_TEMPERATURE == 10

\* The tile that carries the target and current temperature.
TILE_ID == 58

\* The control identifier of a setpoint write.
SETPOINT_IDO == 139

\* fetchDataTiles answers from the cache for this many milliseconds.
CACHE_MS == 2500

\* lastFetchTime before the first fetch and after a write.
NEVER_FETCHED == -1

\* Characteristic.TargetHeatingCoolingState values.
OFF == 0

HEAT == 1

COOL == 2

\* The control identifier of a mode write (src/src/index.js).
MODE_IDO == 138

\* setProps of the TargetTemperature characteristic, in degrees.
MIN_VALUE == 10

MAX_VALUE == 30

\* minStep is 0.5 degrees: Scale / STEPS_PER_DEGREE fixed-point units.
STEPS_PER_DEGREE == 2

\* ------------------------------------------------------------------ cookies

\* A cookie string is a sequence of characters.
SessionNeedle == <<"s", "e", "s", "s", "i", "o", "n">>

SessCookie == <<"s", "e", "s", "s", "i", "o", "n", "=", "a">>

LangCookie == <<"l", "a", "n", "g", "=", "e", "n">>

\* A JavaScript string value, or undefined.
Str(text) == [defined |-> TRUE, text |-> text]

Undefined == [defined |-> FALSE, text |-> <<>>]

\* String.prototype.includes
Includes(hay, needle) ==
    \E i \in 1..(Len(hay) - Len(needle) + 1) :
        SubSeq(hay, i, i + Len(needle) - 1) = needle

IsSessionCookie(cookie) == Includes(cookie, SessionNeedle)

\* cookies.filter(cookie => cookie.includes('session'))[0]
FirstSessionCookie(cookies) ==
    LET found == SelectSeq(cookies, IsSessionCookie)
    IN  IF Len(found) > 0 THEN Str(found[1]) ELSE Undefined


\* ------------------------------------------------------------------ backend

\* axios resolves a response with a 2xx status and rejects every other
\* status; status 0 stands for a request that got no response at all.
NETWORK_ERROR == 0

Is2xx(status) == status >= 200 /\ status < 300

IsAuthRejection(status) == status \in {401, 403}

LoginResponse(status, header, cookies) ==
    [status |-> status, header |-> header, cookies |-> cookies]

\* What POST /login can answer. header says whether the response carries a
\* set-cookie header at all. Without credentials the backend never accepts.
LoginResponses(cfg) ==
    {LoginResponse(401, FALSE, <<>>), LoginResponse(NETWORK_ERROR, FALSE, <<>>)}
    \cup (IF cfg.username /\ cfg.password
          THEN {LoginResponse(200, TRUE, <<LangCookie, SessCookie>>),
                LoginResponse(200, TRUE, <<LangCookie>>),
                LoginResponse(200, FALSE, <<>>)}
          ELSE {})

\* A tile with the parameters the plugin reads: the thermostat tile carries
\* widget1 and widget2, the mode tile carries statusId.
Tile(id, widget1, widget2) ==
    [id |-> id, widget1 |-> widget1, widget2 |-> widget2, statusId |-> 0]

\* The tile that carries the heating/cooling mode.
MODE_TILE_ID == 61

ModeTile(statusId) ==
    [id |-> MODE_TILE_ID, widget1 |-> 0, widget2 |-> 0, statusId |-> statusId]

\* Some other tile of the module.
OtherTile == ModeTile(1)

\* What GET /frontend/module_data can answer when the device holds the
\* given target and current temperature: the tiles with or without the
\* thermostat tile, or a failure.
ReadResponses(target, current) ==
    {[status |-> 200, tiles |-> <<OtherTile, Tile(TILE_ID, target, current)>>],
     [status |-> 200, tiles |-> <<OtherTile>>]}
    \cup {[status |-> s, tiles |-> <<>>] : s \in {401, 403, 500, NETWORK_ERROR}}

WriteStatuses == {200, 401, 403, 500, NETWORK_ERROR}

\* Wire values the device reports as current temperature.
WireCurrents == {180}

\* Wire values the device holds as target temperature at start.
WireTargets == {215}

\* Values the host passes to the TargetTemperature set handler (fixed-point).
SetValues == {2150, 3700}

\* Values the host passes to the TargetHeatingCoolingState set handler.
ModeValues == {OFF, HEAT}

\* -------------------------------------------------------------------- state

VARIABLES
    config,           \* which credentials the configuration carries
    constructed,      \* the constructor has run
    isAuthorized,     \* this.isAuthorized
    sessionCookie,    \* this.sessionCookie
    thermostatState,  \* this.thermostatState
    lastFetchTime,    \* this.lastFetchTime
    now,              \* new Date().getTime()
    task,             \* the calls in progress and the request each waits for
    done,             \* the call the last step completed, and how
    srvTarget,        \* the device's target temperature (wire value)
    srvCurrent,       \* the device's current temperature (wire value)
    cachedState,      \* this.cachedState (src/unnamed/part_001)
    isOn,             \* this.isOn (src/unnamed/part_001)
    clearCacheDue,    \* when the setInterval timer fires next (0: no timer)
    shutDown          \* the host has emitted its shutdown event

vars == <<config, constructed, isAuthorized, sessionCookie, thermostatState,
          lastFetchTime, now, task, done, srvTarget, srvCurrent,
          cachedState, isOn, clearCacheDue, shutDown>>

Tasks == 1..MaxTasks

GetKinds == {"getTargetHeatingCoolingState", "getCurrentTemperature",
             "getTargetTemperature"}

\* A slot with no call in progress. pc is the request a call waits for
\* ("login", "read", "write"). logins and reads count the requests the call
\* has sent, cookieSent the Cookie header of its last request, ido and
\* params what a write carries, at the time a set handler was invoked,
\* reported what the handler has told the host while its request is still
\* in flight ("none" as long as it has told nothing).
IdleTask ==
    [kind |-> "none", pc |-> "idle", arg |-> 0, logins |-> 0, reads |-> 0,
     cookieSent |-> Str(<<>>), params |-> 0, ido |-> 0, at |-> 0,
     reported |-> "none"]

Free(t) == task[t].pc = "idle"

\* A completed call. outcome is how its callback was called: "ok"
\* (callback(null, value)), "error" (callback(error)) or "unhandled" (a
\* rejection nobody catches); status is the status of the last response
\* the call received (-1 when it sent no request).
Completed(call, outcome, value, status) ==
    [kind |-> call.kind, arg |-> call.arg, outcome |-> outcome,
     value |-> value, status |-> status, logins |-> call.logins,
     reads |-> call.reads]

NothingDone == Completed(IdleTask, "none", 0, -1)

\* ------------------------------------------------------------- conversions

\* widget.value / this.TEMPERATURE_DIVIDER, as a fixed-point number
FromWire(value) == (value * Scale) \div TEMPERATURE_DIVIDER

\* The multiplication left out: degrees go on the wire as they are.
ToWireUnscaled(celsius) == celsius \div Scale

\* targetTemperature * this.TEMPERATURE_DIVIDER. The product is a whole
\* number for every multiple of 0.1 degree, which is what the host passes
\* here; for those the division below is exact.
ToWire(celsius) == (celsius * TEMPERATURE_DIVIDER) \div Scale

IsThermostatTile(tile) == tile.id = TILE_ID

\* The filter left out: whatever tile comes first is taken.
FindTilesAny(tiles) == tiles

\* tiles.filter(tile => tile.id === 58)
FindTiles(tiles) == SelectSeq(tiles, IsThermostatTile)

\* The widgets mixed up: the current temperature taken from widget1.
ParseTileSwapped(tile) ==
    [currentTemperature |-> FromWire(tile.widget1),
     targetTemperature |-> FromWire(tile.widget1),
     heating |-> FromWire(tile.widget1) > TURN_ON_OFF_TEMPERATURE * Scale]

\* The comparison off by one: a target at the off temperature counts as
\* heating.
ParseTileAtThreshold(tile) ==
    [currentTemperature |-> FromWire(tile.widget2),
     targetTemperature |-> FromWire(tile.widget1),
     heating |-> FromWire(tile.widget1) >= TURN_ON_OFF_TEMPERATURE * Scale]

\* The object requestThermostatState builds from the found tile.
ParseTile(tile) ==
    [currentTemperature |-> FromWire(tile.widget2),
     targetTemperature |-> FromWire(tile.widget1),
     heating |-> FromWire(tile.widget1) > TURN_ON_OFF_TEMPERATURE * Scale]

\* What a get handler hands to its callback.
Reported(kind, state) ==
    CASE kind = "getTargetHeatingCoolingState" ->
             (IF state.heating THEN HEAT ELSE OFF)
      [] kind = "getCurrentTemperature" -> state.currentTemperature
      [] kind = "getTargetTemperature" -> state.targetTemperature
      [] OTHER -> 0

\* A rejection of requestThermostatState: the get handlers pass it to
\* callback(error), the constructor attaches no catch.
Rejected(kind) == IF kind = "ctor" THEN "unhandled" ELSE "error"

\* cachedState before the first read and after clearCache: undefined or
\* null, which fetchDataTiles tells from a tile list by its truthiness.
NoTiles == [cached |-> FALSE, tiles |-> <<>>]

CachedTiles(tiles) == [cached |-> TRUE, tiles |-> tiles]

\* ------------------------------------------------------------------- Init

\* The fields as the class initialises them, for every configuration the
\* host may pass; the device holds some target and current temperature.
Init ==
    /\ config \in [username : BOOLEAN, password : BOOLEAN]
    /\ constructed = FALSE
    /\ isAuthorized = FALSE
    /\ sessionCookie = Str(<<>>)
    /\ thermostatState =
           [currentTemperature |-> 0, targetTemperature |-> 0, heating |-> FALSE]
    /\ lastFetchTime = NEVER_FETCHED
    /\ now = TickMs
    /\ task = [t \in Tasks |-> IdleTask]
    /\ done = NothingDone
    /\ srvTarget \in WireTargets
    /\ srvCurrent \in WireCurrents
    /\ cachedState = NoTiles
    /\ isOn = FALSE
    /\ clearCacheDue = 0
    /\ shutDown = FALSE

\* ------------------------------------------------------- fetchDataTiles

\* lastFetchTime > 0 && currentTime - lastFetchTime < 2500
CacheIsFresh == lastFetchTime > 0 /\ now - lastFetchTime < CACHE_MS

\* The check inverted: the login is skipped exactly when it is needed.
NeedsLoginInverted == isAuthorized

\* if (!this.isAuthorized) await this.requestAuthorization()
NeedsLogin == ~isAuthorized

\* requestThermostatState up to its first suspension point. Answered from
\* the cache, fetchDataTiles returns thermostatState, which has no filter
\* method, so requestThermostatState rejects at once; otherwise the call
\* waits for the login or for the tiles.
RequestThermostatState(t, kind) ==
    LET fresh == [IdleTask EXCEPT !.kind = kind]
    IN  IF CacheIsFresh
        THEN /\ done' = Completed(fresh, Rejected(kind), 0, -1)
             /\ UNCHANGED <<task, lastFetchTime>>
        ELSE /\ lastFetchTime' = now
             /\ done' = NothingDone
             /\ task' = [task EXCEPT ![t] =
                    IF NeedsLogin
                    THEN [fresh EXCEPT !.pc = "login", !.logins = 1]
                    ELSE [fresh EXCEPT !.pc = "read", !.reads = 1,
                                       !.cookieSent = sessionCookie]]

\* The constructor: no check of the configuration; it calls
\* requestThermostatState and registers the handlers.
Construct ==
    /\ ~constructed
    /\ constructed' = TRUE
    /\ isAuthorized' = FALSE
    /\ sessionCookie' = Str(<<>>)
    /\ RequestThermostatState(1, "ctor")
    /\ UNCHANGED <<cachedState, isOn, clearCacheDue, shutDown>>
    /\ UNCHANGED <<config, thermostatState, now, srvTarget, srvCurrent>>

\* A get handler of TargetHeatingCoolingState, CurrentTemperature or
\* TargetTemperature is invoked by the host.
Get(t, kind) ==
    /\ constructed
    /\ Free(t)
    /\ RequestThermostatState(t, kind)
    /\ UNCHANGED <<cachedState, isOn, clearCacheDue, shutDown>>
    /\ UNCHANGED <<config, constructed, isAuthorized, sessionCookie,
                   thermostatState, now, srvTarget, srvCurrent>>

\* ----------------------------------------------------- requestAuthorization

\* The .then of requestAuthorization runs to its end: the response was a
\* 2xx and carries a set-cookie header (cookies.filter throws without one,
\* which lands in the .catch).
LoginAccepted(resp) == Is2xx(resp.status) /\ resp.header

\* The login of call t is answered. On success the cookie and the flag are
\* stored and fetchDataTiles goes on to send the read; on failure the flag
\* is cleared and the rejection reaches the caller.
LoginAnswered(t, resp) ==
    /\ task[t].pc = "login"
    /\ IF LoginAccepted(resp)
       THEN /\ sessionCookie' = FirstSessionCookie(resp.cookies)
            /\ isAuthorized' = TRUE
            /\ task' = [task EXCEPT ![t] =
                   [@ EXCEPT !.pc = "read", !.reads = @ + 1,
                             !.cookieSent = FirstSessionCookie(resp.cookies)]]
            /\ done' = NothingDone
       ELSE /\ isAuthorized' = FALSE
            /\ UNCHANGED sessionCookie
            /\ task' = [task EXCEPT ![t] = IdleTask]
            /\ done' = Completed(task[t], Rejected(task[t].kind), 0, resp.status)
    /\ UNCHANGED <<cachedState, isOn, clearCacheDue, shutDown>>
    /\ UNCHANGED <<config, constructed, thermostatState, lastFetchTime, now,
                   srvTarget, srvCurrent>>

\* --------------------------------------------- read response, parse, report

\* isAuthorized after the catch of fetchDataTiles, which any failed read
\* reaches.
AuthorizedAfterFailedRead == FALSE

\* The cookie dropped together with the flag.
CookieCleared == Str(<<>>)

\* sessionCookie after the catch of fetchDataTiles: the catch assigns
\* isAuthorized only.
CookieAfterFailedRead == sessionCookie

\* The state put back to its initial value when a read fails.
StateReset ==
    [currentTemperature |-> 0, targetTemperature |-> 0, heating |-> FALSE]

\* thermostatState after a failed read: requestThermostatState never gets
\* to its assignment.
StateAfterFailedRead == thermostatState

\* The read of call t is answered. A 2xx response is parsed: with the tile,
\* thermostatState is replaced and reported; without it foundTile is
\* undefined and requestThermostatState rejects. Any other answer clears
\* isAuthorized and rejects.
ReadAnswered(t, resp) ==
    /\ task[t].pc = "read"
    /\ task' = [task EXCEPT ![t] = IdleTask]
    /\ IF Is2xx(resp.status)
       THEN LET found == FindTiles(resp.tiles)
            IN  /\ UNCHANGED <<isAuthorized, sessionCookie>>
                /\ IF Len(found) > 0
                   THEN /\ thermostatState' = ParseTile(found[1])
                        /\ done' = Completed(task[t], "ok",
                               Reported(task[t].kind, ParseTile(found[1])),
                               resp.status)
                   ELSE /\ UNCHANGED thermostatState
                        /\ done' = Completed(task[t], Rejected(task[t].kind),
                                             0, resp.status)
       ELSE /\ isAuthorized' = AuthorizedAfterFailedRead
            /\ sessionCookie' = CookieAfterFailedRead
            /\ thermostatState' = StateAfterFailedRead
            /\ done' = Completed(task[t], Rejected(task[t].kind), 0, resp.status)
    /\ UNCHANGED <<cachedState, isOn, clearCacheDue, shutDown>>
    /\ UNCHANGED <<config, constructed, lastFetchTime, now,
                   srvTarget, srvCurrent>>

\* -------------------------------------------------- requestTemperatureChange

\* The value requestTemperatureChange puts on the wire: the requested value
\* as it is, scaled.
SetpointParams(value) == ToWire(value)

\* The call as requestTemperatureChange leaves it at axios.post: one control
\* record with the stored cookie, whatever isAuthorized says.
WriteBegun(kind, arg, value) ==
    [IdleTask EXCEPT !.kind = kind, !.at = now, !.arg = arg, !.pc = "write",
                     !.ido = SETPOINT_IDO, !.params = SetpointParams(value),
                     !.cookieSent = sessionCookie]

\* The TargetTemperature set handler: the write is sent at once.
SetTargetTemperature(t, value) ==
    /\ constructed
    /\ Free(t)
    /\ lastFetchTime' = NEVER_FETCHED
    /\ task' = [task EXCEPT ![t] = WriteBegun("setTargetTemperature", value, value)]
    /\ UNCHANGED <<cachedState, isOn, clearCacheDue, shutDown>>
    /\ UNCHANGED <<config, constructed, isAuthorized, sessionCookie,
                   thermostatState, now, srvTarget, srvCurrent>>
    /\ done' = NothingDone

\* The TargetHeatingCoolingState set handler: HEAT only sets the flag and
\* reports success, anything else writes the off temperature.
SetTargetHeatingCoolingState(t, value) ==
    /\ constructed
    /\ Free(t)
    /\ thermostatState' = [thermostatState EXCEPT !.heating = (value = HEAT)]
    /\ IF value = HEAT
       THEN /\ done' = Completed(
                   [IdleTask EXCEPT !.kind = "setTargetHeatingCoolingState",
                                    !.arg = value],
                   "ok", 0, -1)
            /\ UNCHANGED <<task, lastFetchTime>>
       ELSE /\ task' = [task EXCEPT ![t] =
                   WriteBegun("setTargetHeatingCoolingState", value,
                              TURN_ON_OFF_TEMPERATURE * Scale)]
            /\ lastFetchTime' = NEVER_FETCHED
            /\ done' = NothingDone
    /\ UNCHANGED <<cachedState, isOn, clearCacheDue, shutDown>>
    /\ UNCHANGED <<config, constructed, isAuthorized, sessionCookie, now,
                   srvTarget, srvCurrent>>

\* isAuthorized after a write was answered: requestTemperatureChange's
\* catch logs and rethrows, it does not touch the flag.
AuthorizedAfterWrite(status) == isAuthorized

\* The catch left out: whatever the answer, the host is told of success.
WriteOutcomeAlwaysOk(status) == "ok"

\* How the set handler calls back once the write was answered:
\* .then(() => callback(null)).catch(error => callback(error))
WriteOutcome(status) == IF Is2xx(status) THEN "ok" ELSE "error"

\* The write of call t is answered; an accepted write changes the device.
WriteAnswered(t, status) ==
    /\ task[t].pc = "write"
    /\ task' = [task EXCEPT ![t] = IdleTask]
    /\ done' = Completed(task[t], WriteOutcome(status), 0, status)
    /\ isAuthorized' = AuthorizedAfterWrite(status)
    /\ srvTarget' = IF Is2xx(status) THEN task[t].params ELSE srvTarget
    /\ UNCHANGED <<cachedState, isOn, clearCacheDue, shutDown>>
    /\ UNCHANGED <<config, constructed, sessionCookie, thermostatState,
                   lastFetchTime, now, srvCurrent>>

\* -------------------------------------------------------------- environment

\* Time passes.
Tick ==
    /\ now < TickMs * (MaxTicks + 1)
    /\ now' = now + TickMs
    /\ UNCHANGED <<cachedState, isOn, clearCacheDue, shutDown>>
    /\ UNCHANGED <<config, constructed, isAuthorized, sessionCookie,
                   thermostatState, lastFetchTime, task, srvTarget,
                   srvCurrent>>
    /\ done' = NothingDone

Next ==
    \/ Construct
    \/ \E t \in Tasks, kind \in GetKinds : Get(t, kind)
    \/ \E t \in Tasks, resp \in LoginResponses(config) : LoginAnswered(t, resp)
    \/ \E t \in Tasks, resp \in ReadResponses(srvTarget, srvCurrent) :
           ReadAnswered(t, resp)
    \/ \E t \in Tasks, value \in SetValues : SetTargetTemperature(t, value)
    \/ \E t \in Tasks, value \in ModeValues :
           SetTargetHeatingCoolingState(t, value)
    \/ \E t \in Tasks, status \in WriteStatuses : WriteAnswered(t, status)
    \/ Tick

Spec == Init /\ [][Next]_vars

\* ------------------------------------------ the JavaScript plugin, index.js

\* LegacySpec models the plugin of src/src/index.js: promise-returning
\* onGet/onSet handlers, no cache, and an authorize() that nobody awaits.

JsGetKinds == GetKinds \cup {"getCurrentHeatingCoolingState"}

JsModeKinds == {"getCurrentHeatingCoolingState", "getTargetHeatingCoolingState"}

\* The mode tile can report either status.
JsReadResponses(target, current) ==
    ReadResponses(target, current)
    \cup {[status |-> 200,
           tiles |-> <<ModeTile(0), Tile(TILE_ID, target, current)>>]}

\* The constructor: authorize() is called and not awaited.
JsConstruct ==
    /\ ~constructed
    /\ constructed' = TRUE
    /\ isAuthorized' = FALSE
    /\ sessionCookie' = Undefined
    /\ task' = [task EXCEPT ![1] =
           [IdleTask EXCEPT !.kind = "authorize", !.pc = "login", !.logins = 1]]
    /\ done' = NothingDone
    /\ UNCHANGED <<cachedState, isOn, clearCacheDue, shutDown>>
    /\ UNCHANGED <<config, thermostatState, lastFetchTime, now, srvTarget,
                   srvCurrent>>

\* authorize() after its await: a rejected login, or a response without a
\* set-cookie header, is a rejection nobody handles and changes nothing.
JsAuthorizeAnswered(t, resp) ==
    /\ task[t].pc = "login"
    /\ task[t].kind = "authorize"
    /\ task' = [task EXCEPT ![t] = IdleTask]
    /\ IF LoginAccepted(resp)
       THEN /\ sessionCookie' = FirstSessionCookie(resp.cookies)
            /\ isAuthorized' = TRUE
            /\ done' = Completed(task[t], "ok", 0, resp.status)
       ELSE /\ UNCHANGED <<sessionCookie, isAuthorized>>
            /\ done' = Completed(task[t], "unhandled", 0, resp.status)
    /\ UNCHANGED <<cachedState, isOn, clearCacheDue, shutDown>>
    /\ UNCHANGED <<config, constructed, thermostatState, lastFetchTime, now,
                   srvTarget, srvCurrent>>

\* A get handler calls getTiles. Unauthorized, getTiles starts authorize()
\* and returns undefined, so the handler's .then throws and the host gets an
\* error; authorized, the read is sent.
JsGet(t, kind) ==
    /\ constructed
    /\ Free(t)
    /\ IF ~isAuthorized
       THEN /\ task' = [task EXCEPT ![t] =
                   [IdleTask EXCEPT !.kind = "authorize", !.pc = "login",
                                    !.logins = 1]]
            /\ done' = Completed([IdleTask EXCEPT !.kind = kind], "error", 0, -1)
       ELSE /\ task' = [task EXCEPT ![t] =
                   [IdleTask EXCEPT !.kind = kind, !.pc = "read", !.reads = 1,
                                    !.cookieSent = sessionCookie]]
            /\ done' = NothingDone
    /\ UNCHANGED <<cachedState, isOn, clearCacheDue, shutDown>>
    /\ UNCHANGED <<config, constructed, isAuthorized, sessionCookie,
                   thermostatState, lastFetchTime, now, srvTarget, srvCurrent>>

IsModeTile(tile) == tile.id = MODE_TILE_ID

\* extractMode: foundTile?.params?.statusId || -1
ExtractMode(tiles) ==
    LET found == SelectSeq(tiles, IsModeTile)
    IN  IF Len(found) > 0 /\ found[1].statusId # 0
        THEN found[1].statusId
        ELSE -1

\* What the mode get handlers make of the status.
JsModeOf(statusId) ==
    IF statusId = 1 THEN COOL ELSE IF statusId = 0 THEN HEAT ELSE OFF

\* What a get handler resolves to, given the thermostat tile.
JsReported(kind, tile) ==
    IF kind = "getCurrentTemperature"
    THEN FromWire(tile.widget2)
    ELSE FromWire(tile.widget1)

\* The read of call t is answered. The temperature handlers reject when the
\* thermostat tile is missing; a failed read clears isAuthorized and rejects.
JsReadAnswered(t, resp) ==
    /\ task[t].pc = "read"
    /\ task' = [task EXCEPT ![t] = IdleTask]
    /\ IF Is2xx(resp.status)
       THEN /\ UNCHANGED isAuthorized
            /\ IF task[t].kind \in JsModeKinds
               THEN done' = Completed(task[t], "ok",
                                      JsModeOf(ExtractMode(resp.tiles)), resp.status)
               ELSE IF Len(FindTiles(resp.tiles)) > 0
                    THEN done' = Completed(task[t], "ok",
                             JsReported(task[t].kind, FindTiles(resp.tiles)[1]),
                             resp.status)
                    ELSE done' = Completed(task[t], "error", 0, resp.status)
       ELSE /\ isAuthorized' = FALSE
            /\ done' = Completed(task[t], "error", 0, resp.status)
    /\ UNCHANGED <<cachedState, isOn, clearCacheDue, shutDown>>
    /\ UNCHANGED <<config, constructed, sessionCookie, thermostatState,
                   lastFetchTime, now, srvTarget, srvCurrent>>

\* What handleTargetTemperatureSet and handleTargetHeatingCoolingStateSet
\* tell the host: they return without returning the promise of axios.post,
\* so the host sees the set succeed as soon as the request is sent.
JsSetReport == "ok"

\* targetStatusId of handleTargetHeatingCoolingStateSet
JsTargetStatusId(value) == IF value = HEAT THEN 1 ELSE 0

\* A set handler: the write is sent and the handler returns.
JsSet(t, kind, arg, ido, params) ==
    /\ constructed
    /\ Free(t)
    /\ task' = [task EXCEPT ![t] =
           [IdleTask EXCEPT !.kind = kind, !.pc = "write", !.arg = arg,
                            !.at = now, !.ido = ido, !.params = params,
                            !.cookieSent = sessionCookie,
                            !.reported = JsSetReport]]
    /\ done' = NothingDone
    /\ UNCHANGED <<cachedState, isOn, clearCacheDue, shutDown>>
    /\ UNCHANGED <<config, constructed, isAuthorized, sessionCookie,
                   thermostatState, lastFetchTime, now, srvTarget, srvCurrent>>

\* handleTargetTemperatureSet: params is targetTemperature * 10
JsSetTargetTemperature(t, value) ==
    JsSet(t, "setTargetTemperature", value, SETPOINT_IDO, ToWire(value))

\* handleTargetHeatingCoolingStateSet
JsSetTargetHeatingCoolingState(t, value) ==
    JsSet(t, "setTargetHeatingCoolingState", value, MODE_IDO,
          JsTargetStatusId(value))

\* The write of call t is answered: the .then only maps the response, a
\* failure is a rejection nobody handles. The outcome of the completed call
\* is what its handler told the host.
JsWriteAnswered(t, status) ==
    /\ task[t].pc = "write"
    /\ task' = [task EXCEPT ![t] = IdleTask]
    /\ done' = Completed(task[t], task[t].reported, 0, status)
    /\ srvTarget' = IF Is2xx(status) /\ task[t].ido = SETPOINT_IDO
                    THEN task[t].params
                    ELSE srvTarget
    /\ UNCHANGED <<cachedState, isOn, clearCacheDue, shutDown>>
    /\ UNCHANGED <<config, constructed, isAuthorized, sessionCookie,
                   thermostatState, lastFetchTime, now, srvCurrent>>

LegacyNext ==
    \/ JsConstruct
    \/ \E t \in Tasks, resp \in LoginResponses(config) : JsAuthorizeAnswered(t, resp)
    \/ \E t \in Tasks, kind \in JsGetKinds : JsGet(t, kind)
    \/ \E t \in Tasks, resp \in JsReadResponses(srvTarget, srvCurrent) :
           JsReadAnswered(t, resp)
    \/ \E t \in Tasks, value \in SetValues : JsSetTargetTemperature(t, value)
    \/ \E t \in Tasks, value \in ModeValues \cup {COOL} :
           JsSetTargetHeatingCoolingState(t, value)
    \/ \E t \in Tasks, status \in WriteStatuses : JsWriteAnswered(t, status)

LegacySpec == Init /\ [][LegacyNext]_vars

\* ---------------------------------- the plugin with cachedState, part_001

\* CacheSpec models the plugin of src/unnamed/part_001: fetchDataTiles keeps
\* the tile list in cachedState, and a timer clears it every five seconds.

\* How many times the clock advances in CacheSpec.
CacheTicks == 2

\* The period of setInterval(() => this.clearCache(), 5000).
CLEAR_CACHE_MS == 5000

\* Values the host passes to the TargetTemperature set handler in CacheSpec.
CacheSetValues == {2200}

\* A rejection in a get handler: the TargetHeatingCoolingState get handler
\* attaches no catch, nor does the constructor to requestAuthorization.
CacheRejected(kind) ==
    IF kind \in {"getTargetHeatingCoolingState", "authorize"}
    THEN "unhandled"
    ELSE "error"

\* targetTemperature > this.TURN_ON_OFF_TEMPERATURE
CacheIsOn(tile) == FromWire(tile.widget1) > TURN_ON_OFF_TEMPERATURE * Scale

\* What a get handler hands to its callback, given the thermostat tile.
CacheReported(kind, tile) ==
    CASE kind = "getTargetHeatingCoolingState" ->
             (IF CacheIsOn(tile) THEN HEAT ELSE OFF)
      [] kind = "getCurrentTemperature" -> FromWire(tile.widget2)
      [] OTHER -> FromWire(tile.widget1)

\* fetchTargetTemperature or fetchCurrentTemperature resumed with the tile
\* list, and the handler's .then: without the tile foundTile.params throws;
\* the TargetHeatingCoolingState get handler also stores isOn.
CacheDeliver(call, tiles, status) ==
    LET found == FindTiles(tiles)
    IN  IF Len(found) > 0
        THEN /\ done' = Completed(call, "ok",
                                  CacheReported(call.kind, found[1]), status)
             /\ isOn' = IF call.kind = "getTargetHeatingCoolingState"
                        THEN CacheIsOn(found[1])
                        ELSE isOn
        ELSE /\ done' = Completed(call, CacheRejected(call.kind), 0, status)
             /\ UNCHANGED isOn

\* The constructor: it registers the handlers, starts the timer and calls
\* requestAuthorization without awaiting it. It starts no read.
CacheConstruct ==
    /\ ~constructed
    /\ constructed' = TRUE
    /\ isAuthorized' = FALSE
    /\ sessionCookie' = Str(<<>>)
    /\ isOn' = FALSE
    /\ clearCacheDue' = now + CLEAR_CACHE_MS
    /\ task' = [task EXCEPT ![1] =
           [IdleTask EXCEPT !.kind = "authorize", !.pc = "login", !.logins = 1]]
    /\ done' = NothingDone
    /\ UNCHANGED shutDown
    /\ UNCHANGED <<config, thermostatState, lastFetchTime, now, srvTarget,
                   srvCurrent, cachedState>>

\* clearCache, called by the timer when it is due; the timer is set again.
ClearCache ==
    /\ clearCacheDue > 0
    /\ now >= clearCacheDue
    /\ cachedState' = NoTiles
    /\ clearCacheDue' = clearCacheDue + CLEAR_CACHE_MS
    /\ done' = NothingDone
    /\ UNCHANGED shutDown
    /\ UNCHANGED <<config, constructed, isAuthorized, sessionCookie,
                   thermostatState, lastFetchTime, now, task, srvTarget,
                   srvCurrent, isOn>>

\* Time passes once the plugin runs; a timer that is due fires before more
\* time passes.
CacheTick ==
    /\ constructed
    /\ now < TickMs * (CacheTicks + 1)
    /\ ~(clearCacheDue > 0 /\ now >= clearCacheDue)
    /\ now' = now + TickMs
    /\ done' = NothingDone
    /\ UNCHANGED shutDown
    /\ UNCHANGED <<config, constructed, isAuthorized, sessionCookie,
                   thermostatState, lastFetchTime, task, srvTarget, srvCurrent,
                   cachedState, isOn, clearCacheDue>>

\* The login the constructor started is answered.
CacheAuthorizeAnswered(t, resp) ==
    /\ task[t].pc = "login"
    /\ task[t].kind = "authorize"
    /\ task' = [task EXCEPT ![t] = IdleTask]
    /\ IF LoginAccepted(resp)
       THEN /\ sessionCookie' = FirstSessionCookie(resp.cookies)
            /\ isAuthorized' = TRUE
            /\ done' = Completed(task[t], "ok", 0, resp.status)
       ELSE /\ UNCHANGED sessionCookie
            /\ isAuthorized' = FALSE
            /\ done' = Completed(task[t], CacheRejected("authorize"), 0,
                                 resp.status)
    /\ UNCHANGED shutDown
    /\ UNCHANGED <<config, constructed, thermostatState, lastFetchTime, now,
                   srvTarget, srvCurrent, cachedState, isOn, clearCacheDue>>

\* The CurrentHeatingCoolingState get handler answers from isOn.
CacheGetCurrentHeatingCoolingState ==
    /\ constructed
    /\ done' = Completed(
           [IdleTask EXCEPT !.kind = "getCurrentHeatingCoolingState"],
           "ok", IF isOn THEN HEAT ELSE OFF, -1)
    /\ UNCHANGED shutDown
    /\ UNCHANGED <<config, constructed, isAuthorized, sessionCookie,
                   thermostatState, lastFetchTime, now, task, srvTarget,
                   srvCurrent, cachedState, isOn, clearCacheDue>>

\* A get handler that calls fetchDataTiles: answered from cachedState when
\* it holds a tile list, otherwise the call waits for the login or for the
\* tiles.
CacheGet(t, kind) ==
    /\ constructed
    /\ Free(t)
    /\ IF cachedState.cached
       THEN /\ CacheDeliver([IdleTask EXCEPT !.kind = kind],
                            cachedState.tiles, -1)
            /\ UNCHANGED task
       ELSE /\ task' = [task EXCEPT ![t] =
                   IF NeedsLogin
                   THEN [IdleTask EXCEPT !.kind = kind, !.pc = "login",
                                         !.logins = 1]
                   ELSE [IdleTask EXCEPT !.kind = kind, !.pc = "read",
                                         !.reads = 1,
                                         !.cookieSent = sessionCookie]]
            /\ done' = NothingDone
            /\ UNCHANGED isOn
    /\ UNCHANGED shutDown
    /\ UNCHANGED <<config, constructed, isAuthorized, sessionCookie,
                   thermostatState, lastFetchTime, now, srvTarget, srvCurrent,
                   cachedState, clearCacheDue>>

\* The login fetchDataTiles awaits is answered.
CacheLoginAnswered(t, resp) ==
    /\ task[t].pc = "login"
    /\ task[t].kind # "authorize"
    /\ IF LoginAccepted(resp)
       THEN /\ sessionCookie' = FirstSessionCookie(resp.cookies)
            /\ isAuthorized' = TRUE
            /\ task' = [task EXCEPT ![t] =
                   [@ EXCEPT !.pc = "read", !.reads = @ + 1,
                             !.cookieSent = FirstSessionCookie(resp.cookies)]]
            /\ done' = NothingDone
       ELSE /\ isAuthorized' = FALSE
            /\ UNCHANGED sessionCookie
            /\ task' = [task EXCEPT ![t] = IdleTask]
            /\ done' = Completed(task[t], CacheRejected(task[t].kind), 0,
                                 resp.status)
    /\ UNCHANGED shutDown
    /\ UNCHANGED <<config, constructed, thermostatState, lastFetchTime, now,
                   srvTarget, srvCurrent, cachedState, isOn, clearCacheDue>>

\* The tiles request of call t is answered: a 2xx response is stored in
\* cachedState and handed on; any other answer clears isAuthorized.
CacheReadAnswered(t, resp) ==
    /\ task[t].pc = "read"
    /\ task' = [task EXCEPT ![t] = IdleTask]
    /\ IF Is2xx(resp.status)
       THEN /\ cachedState' = CachedTiles(resp.tiles)
            /\ CacheDeliver(task[t], resp.tiles, resp.status)
            /\ UNCHANGED isAuthorized
       ELSE /\ isAuthorized' = FALSE
            /\ done' = Completed(task[t], CacheRejected(task[t].kind), 0,
                                 resp.status)
            /\ UNCHANGED <<cachedState, isOn>>
    /\ UNCHANGED shutDown
    /\ UNCHANGED <<config, constructed, sessionCookie, thermostatState,
                   lastFetchTime, now, srvTarget, srvCurrent, clearCacheDue>>

\* The TargetTemperature set handler: requestTemperatureChange sends the
\* write; cachedState is left as it is.
CacheSetTargetTemperature(t, value) ==
    /\ constructed
    /\ Free(t)
    /\ task' = [task EXCEPT ![t] = WriteBegun("setTargetTemperature", value, value)]
    /\ done' = NothingDone
    /\ UNCHANGED shutDown
    /\ UNCHANGED <<config, constructed, isAuthorized, sessionCookie,
                   thermostatState, lastFetchTime, now, srvTarget, srvCurrent,
                   cachedState, isOn, clearCacheDue>>

\* The TargetHeatingCoolingState set handler: HEAT only sets isOn and
\* reports success, anything else writes the off temperature.
CacheSetTargetHeatingCoolingState(t, value) ==
    /\ constructed
    /\ Free(t)
    /\ isOn' = (value = HEAT)
    /\ IF value = HEAT
       THEN /\ done' = Completed(
                   [IdleTask EXCEPT !.kind = "setTargetHeatingCoolingState",
                                    !.arg = value],
                   "ok", 0, -1)
            /\ UNCHANGED task
       ELSE /\ task' = [task EXCEPT ![t] =
                   WriteBegun("setTargetHeatingCoolingState", value,
                              TURN_ON_OFF_TEMPERATURE * Scale)]
            /\ done' = NothingDone
    /\ UNCHANGED shutDown
    /\ UNCHANGED <<config, constructed, isAuthorized, sessionCookie,
                   thermostatState, lastFetchTime, now, srvTarget, srvCurrent,
                   cachedState, clearCacheDue>>

CacheNext ==
    \/ CacheConstruct
    \/ ClearCache
    \/ CacheTick
    \/ CacheGetCurrentHeatingCoolingState
    \/ \E t \in Tasks, resp \in LoginResponses(config) :
           CacheAuthorizeAnswered(t, resp)
    \/ \E t \in Tasks, kind \in GetKinds : CacheGet(t, kind)
    \/ \E t \in Tasks, resp \in LoginResponses(config) :
           CacheLoginAnswered(t, resp)
    \/ \E t \in Tasks, resp \in ReadResponses(srvTarget, srvCurrent) :
           CacheReadAnswered(t, resp)
    \/ \E t \in Tasks, value \in CacheSetValues :
           CacheSetTargetTemperature(t, value)
    \/ \E t \in Tasks, value \in ModeValues :
           CacheSetTargetHeatingCoolingState(t, value)
    \/ \E t \in Tasks, status \in WriteStatuses : WriteAnswered(t, status)

CacheSpec == Init /\ [][CacheNext]_vars

\* ------------------------------------------------ the host shutting down

\* ShutdownSpec follows src/unnamed/part_001 one call at a time up to and
\* past the host's shutdown event.

\* The host emits its shutdown event. The constructor registers no listener
\* for it and discards the handle setInterval returns, so no field changes
\* and the timer stays set.
Shutdown ==
    /\ constructed
    /\ ~shutDown
    /\ shutDown' = TRUE
    /\ done' = NothingDone
    /\ UNCHANGED <<config, constructed, isAuthorized, sessionCookie,
                   thermostatState, lastFetchTime, now, task, srvTarget,
                   srvCurrent, cachedState, isOn, clearCacheDue>>

\* The host calls no handler once it has shut down; requests already sent
\* are still answered, time passes and timers fire.
ShutdownNext ==
    \/ CacheConstruct
    \/ ClearCache
    \/ CacheTick
    \/ Shutdown
    \/ \E resp \in LoginResponses(config) : CacheAuthorizeAnswered(1, resp)
    \/ ~shutDown /\ \E kind \in GetKinds : CacheGet(1, kind)
    \/ \E resp \in LoginResponses(config) : CacheLoginAnswered(1, resp)
    \/ \E resp \in ReadResponses(srvTarget, srvCurrent) :
           CacheReadAnswered(1, resp)

ShutdownSpec == Init /\ [][ShutdownNext]_vars

\* ------------------------------------------- a backend that may not answer

\* TimeoutSpec follows src/src/index.ts one call at a time against a
\* backend that is free never to answer: the answers (LoginAnswered,
\* ReadAnswered, WriteAnswered) are the backend's steps and carry no
\* fairness. Time is the only thing that passes by itself. The axios calls
\* are made without a timeout option, so the class has no step of its own
\* that ends a request.
TimeoutNext ==
    \/ Construct
    \/ \E kind \in GetKinds : Get(1, kind)
    \/ \E resp \in LoginResponses(config) : LoginAnswered(1, resp)
    \/ \E resp \in ReadResponses(srvTarget, srvCurrent) : ReadAnswered(1, resp)
    \/ \E value \in SetValues : SetTargetTemperature(1, value)
    \/ \E value \in ModeValues : SetTargetHeatingCoolingState(1, value)
    \/ \E status \in WriteStatuses : WriteAnswered(1, status)
    \/ Tick

TimeoutSpec == Init /\ [][TimeoutNext]_vars /\ WF_vars(Tick)

\* ------------------------------------------- reading, one call at a time

\* ReadSpec follows the calls of requestThermostatState one at a time, for
\* a device that holds any of a range of target and current temperatures.

\* Wire values around the off temperature, and the README's example.
ReadTargets == {0, 99, 100, 101, 215, 300}

ReadCurrents == {0, 180, 215}

ReadInit ==
    /\ config \in [username : BOOLEAN, password : BOOLEAN]
    /\ constructed = FALSE
    /\ isAuthorized = FALSE
    /\ sessionCookie = Str(<<>>)
    /\ thermostatState =
           [currentTemperature |-> 0, targetTemperature |-> 0, heating |-> FALSE]
    /\ lastFetchTime = NEVER_FETCHED
    /\ now = TickMs
    /\ task = [t \in Tasks |-> IdleTask]
    /\ done = NothingDone
    /\ srvTarget \in ReadTargets
    /\ srvCurrent \in ReadCurrents
    /\ cachedState = NoTiles
    /\ isOn = FALSE
    /\ clearCacheDue = 0
    /\ shutDown = FALSE

ReadNext ==
    \/ Construct
    \/ \E kind \in GetKinds : Get(1, kind)
    \/ \E resp \in LoginResponses(config) : LoginAnswered(1, resp)
    \/ \E resp \in ReadResponses(srvTarget, srvCurrent) : ReadAnswered(1, resp)
    \/ Tick

ReadSpec == ReadInit /\ [][ReadNext]_vars

\* ------------------------------------------- writing, one call at a time

\* WriteSpec follows the set handlers one call at a time, for every target
\* temperature the TargetTemperature characteristic offers (minValue to
\* maxValue in steps of minStep), the values of SetValues and two values
\* off the grid.

GridValues ==
    {MIN_VALUE * Scale + k * (Scale \div STEPS_PER_DEGREE) :
         k \in 0..((MAX_VALUE - MIN_VALUE) * STEPS_PER_DEGREE)}

\* Values off the grid and below the minimum: 21.3 and -5 degrees.
OffGridValues == {2130, -500}

WriteNext ==
    \/ Construct
    \/ \E resp \in LoginResponses(config) : LoginAnswered(1, resp)
    \/ \E resp \in ReadResponses(srvTarget, srvCurrent) : ReadAnswered(1, resp)
    \/ \E value \in GridValues \cup SetValues \cup OffGridValues :
           SetTargetTemperature(1, value)
    \/ \E value \in ModeValues : SetTargetHeatingCoolingState(1, value)
    \/ \E status \in WriteStatuses : WriteAnswered(1, status)

WriteSpec == Init /\ [][WriteNext]_vars

\* ------------------------------------- the optional configuration values

\* ConfigSpec follows one call at a time for a configuration that carries
\* the credentials and may carry the optional values the README lists:
\* tileId, setpointIdo, temperatureDivider, offThresholdC.

\* An optional configuration value: absent, or a number.
Absent == [defined |-> FALSE, value |-> 0]

Given(value) == [defined |-> TRUE, value |-> value]

\* The value the README says applies: the configured one, else the default.
Configured(field, default) == IF field.defined THEN field.value ELSE default

ConfigInit ==
    /\ config \in [username : {TRUE}, password : {TRUE},
                   tileId : {Absent, Given(59)},
                   setpointIdo : {Absent, Given(140)},
                   temperatureDivider : {Absent, Given(100)},
                   offThresholdC : {Absent, Given(5)}]
    /\ constructed = FALSE
    /\ isAuthorized = FALSE
    /\ sessionCookie = Str(<<>>)
    /\ thermostatState =
           [currentTemperature |-> 0, targetTemperature |-> 0, heating |-> FALSE]
    /\ lastFetchTime = NEVER_FETCHED
    /\ now = TickMs
    /\ task = [t \in Tasks |-> IdleTask]
    /\ done = NothingDone
    /\ srvTarget \in WireTargets
    /\ srvCurrent \in WireCurrents
    /\ cachedState = NoTiles
    /\ isOn = FALSE
    /\ clearCacheDue = 0
    /\ shutDown = FALSE

\* What GET /frontend/module_data can answer for a device whose thermostat
\* tile has the id the user configured.
ConfigReadResponses(target, current) ==
    {[status |-> 200,
      tiles |-> <<OtherTile,
                  Tile(Configured(config.tileId, TILE_ID), target, current)>>]}
    \cup {[status |-> s, tiles |-> <<>>] : s \in {401, 500, NETWORK_ERROR}}

ConfigNext ==
    \/ Construct
    \/ \E kind \in GetKinds : Get(1, kind)
    \/ \E resp \in LoginResponses(config) : LoginAnswered(1, resp)
    \/ \E resp \in ConfigReadResponses(srvTarget, srvCurrent) :
           ReadAnswered(1, resp)
    \/ \E value \in SetValues : SetTargetTemperature(1, value)
    \/ \E value \in ModeValues : SetTargetHeatingCoolingState(1, value)
    \/ \E status \in WriteStatuses : WriteAnswered(1, status)
    \/ Tick

ConfigSpec == ConfigInit /\ [][ConfigNext]_vars

\* ------------------------------------------------------------------ claims

FetchKinds == GetKinds \cup {"ctor"}

SetKinds == {"setTargetTemperature", "setTargetHeatingCoolingState"}

NonEmpty(cookie) == cookie.defined /\ cookie.text # <<>>

\* C1: a call of requestThermostatState whose tile read was rejected with
\* 401/403 has, by the time it completes, logged in and sent a second read;
\* it never completes after a single rejected read.
C1_RejectedReadIsRetried ==
    (done.kind \in FetchKinds /\ done.reads >= 1 /\ IsAuthRejection(done.status))
        => (done.reads = 2 /\ done.logins >= 1)

\* C2: a tile read that starts while the session is authorized sends no
\* login and goes out at once with the stored cookie; a tile read that
\* starts while the session is not authorized first waits for its login, and
\* the read request is sent only in the step that stores an accepted login,
\* with the cookie that login stored.
C2_CookieReuse ==
    [][\A t \in Tasks :
          /\ (task[t].pc = "idle" /\ task'[t].pc # "idle"
                  /\ task'[t].kind \in FetchKinds)
                => IF isAuthorized
                   THEN /\ task'[t].pc = "read"
                        /\ task'[t].logins = 0
                        /\ task'[t].cookieSent = sessionCookie
                   ELSE /\ task'[t].pc = "login"
                        /\ task'[t].reads = 0
          /\ (task[t].pc = "login" /\ task'[t].pc = "read")
                => /\ isAuthorized'
                   /\ task'[t].logins = 1
                   /\ task'[t].cookieSent = sessionCookie'
          /\ (task[t].pc # "read" /\ task'[t].pc = "read")
                => task[t].pc = "login" \/ isAuthorized
      ]_vars

\* C2 witness: two reads are in flight, one sent at once with the stored
\* non-empty cookie, the other sent after the login it had to wait for.
C2_Witness ==
    \E t1, t2 \in Tasks :
        /\ task[t1].pc = "read" /\ task[t1].logins = 0
        /\ NonEmpty(task[t1].cookieSent)
        /\ task[t2].pc = "read" /\ task[t2].logins = 1

\* C3: the session starts unauthenticated, becomes authenticated only in a
\* step that accepts a login, and is unauthenticated after every step in
\* which a request (read, write or login) was answered with 401/403.
C3_RevertsOnAnyRejection ==
    /\ ~isAuthorized
    /\ [][/\ (~isAuthorized /\ isAuthorized')
                => \E t \in Tasks : task[t].pc = "login" /\ task'[t].pc = "read"
          /\ IsAuthRejection(done'.status) => ~isAuthorized'
         ]_vars

\* C4: whenever the session is authorized, the stored cookie is a defined,
\* non-empty string.
C4_AuthorizedHasCookie == isAuthorized => NonEmpty(sessionCookie)

\* C5: with a configuration that lacks the username or the password the
\* constructor fails, and no request of its making is in flight.
C5_NoRequestWithoutCredentials ==
    ~(config.username /\ config.password)
        => (~constructed /\ \A t \in Tasks : task[t].pc = "idle")

\* C6: of the TargetTemperature set requests that arrive at the same instant
\* (hence within one quiet period) at most one has a write on the wire.
C6_OneWritePerBurst ==
    \A t1, t2 \in Tasks :
        (/\ t1 # t2
         /\ task[t1].kind = "setTargetTemperature" /\ task[t1].pc = "write"
         /\ task[t2].kind = "setTargetTemperature" /\ task[t2].pc = "write")
            => task[t1].at # task[t2].at

\* C7: at most one setpoint write is outstanding.
C7_AtMostOneWriteOutstanding ==
    Cardinality({t \in Tasks : task[t].pc = "write"}) <= 1

\* C9: when the write of a set request has failed (no response, or a status
\* other than 2xx), the host was told of an error for that request.
C9_FailedWriteReportsError ==
    (done.kind \in SetKinds /\ done.status >= 0 /\ ~Is2xx(done.status))
        => done.outcome = "error"

\* C10: every setpoint on the wire lies between the minimum and the maximum
\* and is a whole number of steps above the minimum.
C10_SetpointOnGrid ==
    \A t \in Tasks :
        task[t].pc = "write"
            => /\ FromWire(task[t].params) >= MIN_VALUE * Scale
               /\ FromWire(task[t].params) <= MAX_VALUE * Scale
               /\ (FromWire(task[t].params) - MIN_VALUE * Scale)
                      % (Scale \div STEPS_PER_DEGREE) = 0

\* C11: when a call of requestThermostatState has succeeded, the state it
\* stored holds the tile's widget1 value divided by the divider as target,
\* its widget2 value divided by the divider as current temperature, and
\* heating exactly when the target is above the off temperature; the handler
\* reports the field it is about; the tile 215/180 gives 21.5, 18.0, heating.
C11_ParsedState ==
    (done.kind \in FetchKinds /\ done.outcome = "ok")
        => /\ thermostatState.targetTemperature * TEMPERATURE_DIVIDER
                  = srvTarget * Scale
           /\ thermostatState.currentTemperature * TEMPERATURE_DIVIDER
                  = srvCurrent * Scale
           /\ thermostatState.heating
                  <=> (srvTarget > TURN_ON_OFF_TEMPERATURE * TEMPERATURE_DIVIDER)
           /\ (srvTarget = 215 /\ srvCurrent = 180)
                  => thermostatState =
                         [currentTemperature |-> 1800,
                          targetTemperature |-> 2150, heating |-> TRUE]
           /\ done.kind = "getTargetTemperature"
                  => done.value = thermostatState.targetTemperature
           /\ done.kind = "getCurrentTemperature"
                  => done.value = thermostatState.currentTemperature
           /\ done.kind = "getTargetHeatingCoolingState"
                  => done.value = (IF thermostatState.heating THEN HEAT ELSE OFF)

\* C11 witness: the TargetTemperature get handler has reported 21.5 for the
\* tile 215/180.
C11_Witness ==
    /\ done.kind = "getTargetTemperature" /\ done.outcome = "ok"
    /\ srvTarget = 215 /\ srvCurrent = 180
    /\ done.value = 2150 /\ thermostatState.heating

\* C12: in every state the stored thermostatState has heating exactly when
\* its target temperature is above the off temperature.
C12_HeatingFollowsTarget ==
    thermostatState.heating
        <=> (thermostatState.targetTemperature > TURN_ON_OFF_TEMPERATURE * Scale)

\* The tile list holds a tile with the given id.
HasTile(tiles, id) == \E i \in 1..Len(tiles) : tiles[i].id = id

\* C13: when the tiles request is answered with a list that holds no tile
\* with id 58, the call does not succeed: a get handler calls back with an
\* error, and the stored thermostatState stays as it was.
C13_MissingTileIsAnError ==
    [][\A resp \in ReadResponses(srvTarget, srvCurrent) :
          (/\ Is2xx(resp.status)
           /\ ~HasTile(resp.tiles, TILE_ID)
           /\ ReadAnswered(1, resp))
              => /\ done'.outcome # "ok"
                 /\ done'.kind \in GetKinds => done'.outcome = "error"
                 /\ thermostatState' = thermostatState
      ]_vars

\* C13 witness: a get handler has called back with an error although the
\* tiles request was answered 200, after an earlier read had stored a state.
C13_Witness ==
    /\ done.kind \in GetKinds /\ done.outcome = "error"
    /\ done.reads >= 1 /\ Is2xx(done.status)
    /\ thermostatState.targetTemperature > 0

\* The temperature a write in flight is to set: the handler's argument, or
\* the off temperature for a mode write.
WriteTarget(call) ==
    IF call.kind = "setTargetTemperature"
    THEN call.arg
    ELSE TURN_ON_OFF_TEMPERATURE * Scale

\* C14: every setpoint write on the wire carries ido 139 and, as params,
\* the whole number that is the target temperature times the divider: ten
\* times the target for every target from 10 to 30 in steps of 0.5, and 215
\* for 21.5.
C14_ControlRecord ==
    \A t \in Tasks :
        task[t].pc = "write"
            => /\ task[t].ido = SETPOINT_IDO
               /\ task[t].params * Scale
                      = WriteTarget(task[t]) * TEMPERATURE_DIVIDER
               /\ WriteTarget(task[t]) \in GridValues
                      => task[t].params * Scale = 10 * WriteTarget(task[t])
               /\ WriteTarget(task[t]) = 2150 => task[t].params = 215

\* C14 witness: the write for a target of 21.5 is on the wire with params
\* 215.
C14_Witness ==
    \E t \in Tasks :
        /\ task[t].pc = "write" /\ task[t].kind = "setTargetTemperature"
        /\ task[t].arg = 2150 /\ task[t].params = 215
        /\ task[t].ido = SETPOINT_IDO

\* C15: a setpoint write is on the wire only with the cookie of an
\* established session, and a set request whose write was rejected with
\* 401/403 has, by the time it calls back, logged in once.
C15_WriteRetriedAfterReauth ==
    /\ \A t \in Tasks :
           task[t].pc = "write" => NonEmpty(task[t].cookieSent)
    /\ (done.kind \in SetKinds /\ IsAuthRejection(done.status))
           => done.logins = 1

\* C16: every time the plugin's periodic timer fires, a refresh of the
\* device state is triggered: some call starts its login or its tile read
\* in that step.
C16_TimerTriggersRefresh ==
    [][(clearCacheDue > 0 /\ clearCacheDue' > clearCacheDue)
           => \E t \in Tasks :
                  /\ task[t].pc = "idle"
                  /\ task'[t].pc \in {"login", "read"}
      ]_vars

\* C17: a write sent by the TargetHeatingCoolingState set handler is the
\* setpoint write for the off temperature, sent for the value OFF, and the
\* host has been told nothing while it is in flight; the handler calls back
\* for OFF only when that write was answered, with success exactly when it
\* was accepted and with an error otherwise.
C17_OffWritesOffTemperature ==
    /\ \A t \in Tasks :
           (task[t].pc = "write" /\ task[t].kind = "setTargetHeatingCoolingState")
               => /\ task[t].arg = OFF
                  /\ task[t].ido = SETPOINT_IDO
                  /\ task[t].params
                         = TURN_ON_OFF_TEMPERATURE * TEMPERATURE_DIVIDER
                  /\ task[t].reported = "none"
    /\ (done.kind = "setTargetHeatingCoolingState" /\ done.arg = OFF)
           => /\ done.status >= 0
              /\ done.outcome = (IF Is2xx(done.status) THEN "ok" ELSE "error")
              /\ done.outcome = "ok"
                     => srvTarget = TURN_ON_OFF_TEMPERATURE * TEMPERATURE_DIVIDER

\* C17 witness: the handler has reported success for OFF after the device
\* accepted the off temperature in place of another target.
C17_Witness ==
    /\ done.kind = "setTargetHeatingCoolingState" /\ done.arg = OFF
    /\ done.outcome = "ok" /\ done.status = 200
    /\ srvTarget = 100
    /\ thermostatState.targetTemperature = 2150

\* C18: a write carries the configured setpointIdo and is encoded with the
\* configured temperatureDivider, the off write being the one for the
\* configured offThresholdC; a read that succeeded has taken the tile with
\* the configured tileId and decoded it with the configured divider and
\* threshold; an absent value counts as 58, 139, 10, 10.
C18_ConfigHonoured ==
    LET divider == Configured(config.temperatureDivider, TEMPERATURE_DIVIDER)
        threshold == Configured(config.offThresholdC, TURN_ON_OFF_TEMPERATURE)
    IN  /\ \A t \in Tasks :
               task[t].pc = "write"
                   => /\ task[t].ido = Configured(config.setpointIdo, SETPOINT_IDO)
                      /\ task[t].params * Scale
                             = (IF task[t].kind = "setTargetTemperature"
                                THEN task[t].arg
                                ELSE threshold * Scale) * divider
        /\ (done.kind \in GetKinds /\ done.reads >= 1 /\ Is2xx(done.status))
               => /\ done.outcome = "ok"
                  /\ thermostatState.targetTemperature * divider
                         = srvTarget * Scale
                  /\ thermostatState.heating
                         <=> (thermostatState.targetTemperature
                                  > threshold * Scale)

\* The minimum, the maximum and the step as fixed-point numbers.
MinC == MIN_VALUE * Scale

MaxC == MAX_VALUE * Scale

StepC == Scale \div STEPS_PER_DEGREE

\* round(clamp(v, minC, maxC) / stepC) * stepC, halves rounded up
ClampAndStep(v) ==
    LET clamped == IF v < MinC THEN MinC ELSE IF v > MaxC THEN MaxC ELSE v
    IN  ((2 * clamped + StepC) \div (2 * StepC)) * StepC

\* C19: the setpoint a TargetTemperature set request puts on the wire is the
\* requested value clamped to [10, 30] and rounded to the nearest half
\* degree: 30 for 37, 10 for -5 and 21.5 for 21.3.
C19_WrittenValueIsClampedAndStepped ==
    \A t \in Tasks :
        (task[t].pc = "write" /\ task[t].kind = "setTargetTemperature")
            => /\ task[t].params * Scale
                      = ClampAndStep(task[t].arg) * TEMPERATURE_DIVIDER
               /\ task[t].arg = 3700 => task[t].params = 300
               /\ task[t].arg = -500 => task[t].params = 100
               /\ task[t].arg = 2130 => task[t].params = 215

\* C20: a TargetTemperature get handler that reports while the write of a
\* TargetTemperature set request is in flight reports the target of such a
\* request, not the target read from the server.
C20_TargetHeldWhileWriteInFlight ==
    LET writing == {t \in Tasks : /\ task[t].pc = "write"
                                  /\ task[t].kind = "setTargetTemperature"}
    IN  (/\ done.kind = "getTargetTemperature"
         /\ done.outcome = "ok"
         /\ writing # {})
            => \E t \in writing : done.value = task[t].arg

\* C21: a get handler whose tile read failed with something other than
\* 401/403 calls back with an error after that one read, and the step leaves
\* isAuthorized as it was; isAuthorized turns from true to false only in a
\* step in which a request was answered with 401/403.
C21_OnlyRejectionInvalidates ==
    [][/\ (/\ done'.kind \in GetKinds
           /\ done'.reads >= 1
           /\ ~Is2xx(done'.status)
           /\ ~IsAuthRejection(done'.status))
              => /\ done'.outcome = "error"
                 /\ done'.reads = 1
                 /\ isAuthorized' = isAuthorized
       /\ (isAuthorized /\ ~isAuthorized') => IsAuthRejection(done'.status)
      ]_vars

\* C22: the stored cookie changes only in the step that stores an accepted
\* login; every step that turns isAuthorized from true to false, and every
\* step in which a request failed, leaves it as it was.
C22_InvalidationKeepsCookie ==
    [][/\ sessionCookie' # sessionCookie
              => /\ isAuthorized'
                 /\ \E t \in Tasks :
                        task[t].pc = "login" /\ task'[t].pc = "read"
       /\ (isAuthorized /\ ~isAuthorized') => sessionCookie' = sessionCookie
       /\ done'.outcome \in {"error", "unhandled"}
              => sessionCookie' = sessionCookie
      ]_vars

\* C22 witness: the session has been invalidated by a failed read and the
\* cookie of the earlier login is still stored.
C22_Witness ==
    /\ ~isAuthorized
    /\ NonEmpty(sessionCookie)
    /\ done.kind \in GetKinds /\ done.reads >= 1 /\ done.outcome = "error"
    /\ ~Is2xx(done.status)

\* C23: a step in which a call of requestThermostatState fails (its login
\* or its read was refused, the tile was missing, or the call was rejected
\* at once) leaves thermostatState as it was, and so does every step in
\* which such a call starts or moves on from its login to its read.
C23_FailedRefreshKeepsState ==
    [][/\ (done'.kind \in FetchKinds /\ done'.outcome \in {"error", "unhandled"})
              => thermostatState' = thermostatState
       /\ (\E t \in Tasks : /\ task'[t].kind \in FetchKinds
                            /\ task'[t].pc \in {"login", "read"}
                            /\ task'[t] # task[t])
              => thermostatState' = thermostatState
      ]_vars

\* C23 witness: a get handler has reported the error of a refused read
\* while the state of an earlier read is stored.
C23_Witness ==
    /\ done.kind \in GetKinds /\ done.outcome = "error"
    /\ done.reads >= 1 /\ ~Is2xx(done.status)
    /\ thermostatState.targetTemperature > 0
    /\ thermostatState.currentTemperature > 0

\* C24: when a call of requestThermostatState has succeeded, the stored
\* current temperature is the one the device reports and the stored heating
\* flag says whether the device's target is above the off temperature,
\* whether or not a setpoint write is in flight.
C24_CurrentAndHeatingFromServer ==
    (done.kind \in FetchKinds /\ done.outcome = "ok")
        => /\ thermostatState.currentTemperature * TEMPERATURE_DIVIDER
                  = srvCurrent * Scale
           /\ thermostatState.heating
                  <=> (srvTarget * Scale
                           > TURN_ON_OFF_TEMPERATURE * Scale * TEMPERATURE_DIVIDER)

\* C24 witness: a read has succeeded while the write of a different target
\* is in flight.
C24_Witness ==
    /\ done.kind \in GetKinds /\ done.outcome = "ok"
    /\ thermostatState.currentTemperature = 1800
    /\ \E t \in Tasks :
           /\ task[t].pc = "write"
           /\ task[t].kind = "setTargetTemperature"
           /\ task[t].arg # thermostatState.targetTemperature

\* C25: at most one login request is outstanding.
C25_AtMostOneLoginOutstanding ==
    Cardinality({t \in Tasks : task[t].pc = "login"}) <= 1


\* C26: after shutdown the timers are cancelled: once the host has shut
\* down no timer of the plugin fires again.
C26_NoTimerFiresAfterShutdown ==
    [][shutDown => /\ clearCacheDue' = clearCacheDue
                   /\ ~ClearCache]_vars


\* C27: every network call completes within its timeout: a call that waits
\* for the backend ends, whether or not the backend answers.
C27_EveryRequestEnds ==
    \A t \in Tasks : (task[t].pc \in {"login", "read", "write"}) ~> Free(t)


\* C28: every call of a get or set handler ends by calling its callback,
\* with a value or with an error: no handler's work ends without it.
C28_EveryHandlerCallsBack ==
    done.kind \in GetKinds \cup SetKinds => done.outcome \in {"ok", "error"}


\* C29: a get answered from the 2.5 s cache, without any request to the
\* backend, succeeds and reports the field of the cached thermostatState.
C29_CachedReadSucceeds ==
    (done.kind \in GetKinds /\ done.logins = 0 /\ done.reads = 0)
        => /\ done.outcome = "ok"
           /\ done.value = Reported(done.kind, thermostatState)


\* A step in which a call sends its setpoint write.
WriteIssued == \E t \in Tasks : task[t].pc # "write" /\ task'[t].pc = "write"

\* C30: a setpoint write invalidates the read cache: once the write has
\* been sent, neither cache holds anything a read could be answered from,
\* so the first read started after it goes to the backend.
C30_WriteInvalidatesCache ==
    [][WriteIssued => /\ ~cachedState'.cached
                      /\ ~(lastFetchTime' > 0 /\ now' - lastFetchTime' < CACHE_MS)
      ]_vars


\* The timer has not fired yet: every read outstanding was sent after the
\* constructor left cachedState empty and before the first clearCache.
BeforeFirstClear == constructed /\ clearCacheDue = TickMs + CLEAR_CACHE_MS

\* C31: with the tile cache, within one interval of the clearing timer at
\* most one tile read is sent, also when get handlers start before the
\* first response has arrived: no two reads are outstanding together.
C31_OneReadBetweenClears ==
    BeforeFirstClear => Cardinality({t \in Tasks : task[t].pc = "read"}) <= 1


\* C32: session recovery: once the backend accepts every login and every
\* read, every get succeeds. A get can then fail only through an answer of
\* the backend: a get that reports an error has sent a login or a read.
C32_GetFailsOnlyByBackend ==
    (done.kind \in GetKinds /\ done.outcome # "ok")
        => done.logins + done.reads >= 1

=============================================================================
